---- MODULE Spec2Model ----
(***************************************************************************)
(* Model of TimerGifCreator.py: a script that renders fifteen countdown    *)
(* animations (15:00 .. 01:00) and writes each as a looping GIF.           *)
(*                                                                         *)
(* Strings that the script builds (labels, file names, console lines) are  *)
(* sequences of one-token strings, so that formatting is computed digit by *)
(* digit as str.format does.                                               *)
(***************************************************************************)
EXTENDS Integers, Sequences, FiniteSets, TLC

VARIABLES pc, run, dirExists, disk, out, saved, err, prev,
          minutes, start_minutes, start_seconds, filename, total_seconds,
          s, labels, i, gif, seconds, ret

vars == <<pc, run, dirExists, disk, out, saved, err, prev,
          minutes, start_minutes, start_seconds, filename, total_seconds,
          s, labels, i, gif, seconds, ret>>

(* ------------------------------ bounds -------------------------------- *)
MaxRuns == 2
MaxSeconds == 6100
MaxStartMinutes == 16
MaxStartSeconds == 61

(* ------------------------- program constants -------------------------- *)
output_dir == "timer_gifs"
width == 1200
height == 800
font_size == 300
FrameDelay == 100
GifLoop == 0
FirstMinutes == 15
MinutesStop == 0

(* --------------------------- pure functions --------------------------- *)
Max(a, b) == IF a >= b THEN a ELSE b

Digit(d) == <<"0", "1", "2", "3", "4", "5", "6", "7", "8", "9">>[d + 1]

RECURSIVE Str(_)
\* str(n) for n >= 0: the decimal digits, most significant first
Str(n) == IF n < 10 THEN <<Digit(n)>> ELSE Str(n \div 10) \o <<Digit(n % 10)>>

\* a plausible slip: a fixed two-character field that keeps the low digits
Format02d_fixed(n) == <<Digit((n \div 10) % 10), Digit(n % 10)>>

\* "{:02d}".format(n): sign, then digits zero-padded to total width 2
Format02d(n) ==
    IF n < 0
    THEN <<"-">> \o Str(-n)
    ELSE IF Len(Str(n)) < 2 THEN <<"0">> \o Str(n) ELSE Str(n)

\* Python divmod: floor division and the non-negative remainder
divmod(a, b) == <<a \div b, a % b>>

nice_time(secs) ==
    LET ms == divmod(secs, 60)
    IN  Format02d(ms[1]) \o <<":">> \o Format02d(ms[2])

\* stop of range(total_seconds, stop, -1) without the clamp
RangeStop_noclamp(total) == total - 60

\* stop of range(total_seconds, stop, -1) one lower: one more value
RangeStop_inclusive(total) == Max(total - 61, -1)

\* the exclusive stop of range(total_seconds, max(total_seconds - 60, -1), -1)
RangeStop(total) == Max(total - 60, -1)

\* a file name without the zero padding
Filename_unpadded(sm, ss) ==
    <<output_dir, "/", "timer_">> \o Str(sm) \o <<"_">> \o Str(ss) \o <<".gif">>

\* f"{output_dir}/timer_{start_minutes:02d}_{start_seconds:02d}.gif"
Filename(sm, ss) ==
    <<output_dir, "/", "timer_">> \o Format02d(sm) \o <<"_">> \o Format02d(ss)
        \o <<".gif">>

SavedLine(f) == <<"GIF saved as ">> \o f
AllDoneLine == <<"All timer GIFs have been created.">>

\* Image(): an empty animation with the library's defaults
EmptyGif == [frames |-> <<>>, dispose |-> "undefined", delay |-> 0,
             loop |-> 0, type |-> "undefined"]

\* one rendered frame: canvas, drawing settings, label at the centre
Frame(label) ==
    [width |-> width, height |-> height, background |-> "transparent",
     font |-> "Arial", font_size |-> font_size, text_alignment |-> "center",
     text_antialias |-> TRUE, fill_color |-> "white",
     x |-> width \div 2, y |-> height \div 2, text |-> label,
     delay |-> FrameDelay, dispose |-> "background"]

\* a file a failed write may leave behind
Truncated == [EmptyGif EXCEPT !.type = "truncated"]

WriteFile(d, f, content) ==
    [g \in (DOMAIN d) \cup {f} |-> IF g = f THEN content ELSE d[g]]

NoFiles == [g \in {} |-> EmptyGif]

(* ------------------------------- state -------------------------------- *)
Locals0 ==
    /\ start_minutes = 0 /\ start_seconds = 0 /\ filename = <<>>
    /\ total_seconds = 0 /\ s = 0 /\ labels = <<>> /\ i = 1 /\ gif = EmptyGif

Init ==
    /\ pc = "makedirs"
    /\ run = 1
    /\ dirExists \in BOOLEAN
    /\ disk = NoFiles
    /\ out = <<>>
    /\ saved = <<>>
    /\ err = "none"
    /\ prev = [ok |-> FALSE, disk |-> NoFiles]
    /\ minutes = FirstMinutes
    /\ Locals0
    /\ seconds = 0 /\ ret = <<>>

(* ------------------------------ actions ------------------------------- *)
\* os.makedirs(output_dir) without exist_ok
MakeDirs_strict ==
    /\ pc = "makedirs"
    /\ \/ /\ dirExists
          /\ err' = "FileExistsError" /\ pc' = "error"
          /\ UNCHANGED dirExists
       \/ /\ ~dirExists
          /\ dirExists' = TRUE /\ pc' = "for"
          /\ UNCHANGED err
    /\ UNCHANGED <<run, disk, out, saved, prev, minutes, start_minutes,
                   start_seconds, filename, total_seconds, s, labels, i, gif,
                   seconds, ret>>

\* os.makedirs(output_dir, exist_ok=True)
MakeDirs ==
    /\ pc = "makedirs"
    /\ dirExists' = TRUE
    /\ pc' = "for"
    /\ UNCHANGED <<run, disk, out, saved, err, prev, minutes, start_minutes,
                   start_seconds, filename, total_seconds, s, labels, i, gif,
                   seconds, ret>>

\* os.makedirs has to create the directory and cannot (permissions, disk)
MakeDirsFail ==
    /\ pc = "makedirs"
    /\ ~dirExists
    /\ err' = "IOError"
    /\ pc' = "error"
    /\ UNCHANGED <<run, dirExists, disk, out, saved, prev, minutes,
                   start_minutes, start_seconds, filename, total_seconds, s,
                   labels, i, gif, seconds, ret>>

\* for minutes in range(15, 0, -1): create_timer_gif(minutes, 0)
ForCall ==
    /\ pc = "for"
    /\ minutes > MinutesStop
    /\ start_minutes' = minutes
    /\ start_seconds' = 0
    /\ minutes' = minutes - 1
    /\ pc' = "create_timer_gif"
    /\ UNCHANGED <<run, dirExists, disk, out, saved, err, prev, filename,
                   total_seconds, s, labels, i, gif, seconds, ret>>

\* the range is exhausted: fall through to the final print
ForExit ==
    /\ pc = "for"
    /\ ~(minutes > MinutesStop)
    /\ pc' = "print_all"
    /\ UNCHANGED <<run, dirExists, disk, out, saved, err, prev, minutes,
                   start_minutes, start_seconds, filename, total_seconds, s,
                   labels, i, gif, seconds, ret>>

\* filename, total_seconds, and the start of the list comprehension
Enter ==
    /\ pc = "create_timer_gif"
    /\ filename' = Filename(start_minutes, start_seconds)
    /\ total_seconds' = start_minutes * 60 + start_seconds
    /\ s' = start_minutes * 60 + start_seconds
    /\ labels' = <<>>
    /\ pc' = "listcomp"
    /\ UNCHANGED <<run, dirExists, disk, out, saved, err, prev, minutes,
                   start_minutes, start_seconds, i, gif, seconds, ret>>

\* one value of the descending range: labels.append(nice_time(s))
ListCompStep ==
    /\ pc = "listcomp"
    /\ s > RangeStop(total_seconds)
    /\ labels' = Append(labels, nice_time(s))
    /\ s' = s - 1
    /\ UNCHANGED <<pc, run, dirExists, disk, out, saved, err, prev, minutes,
                   start_minutes, start_seconds, filename, total_seconds, i,
                   gif, seconds, ret>>

\* the range is exhausted: with Image() as gif, for label in labels
ListCompDone ==
    /\ pc = "listcomp"
    /\ ~(s > RangeStop(total_seconds))
    /\ gif' = EmptyGif
    /\ i' = 1
    /\ pc' = "render"
    /\ UNCHANGED <<run, dirExists, disk, out, saved, err, prev, minutes,
                   start_minutes, start_seconds, filename, total_seconds, s,
                   labels, seconds, ret>>

\* the frame is put in front of the sequence instead of at its end
Render_prepend ==
    /\ pc = "render"
    /\ i <= Len(labels)
    /\ gif' = [gif EXCEPT !.frames = <<Frame(labels[i])>> \o @]
    /\ i' = i + 1
    /\ UNCHANGED <<pc, run, dirExists, disk, out, saved, err, prev, minutes,
                   start_minutes, start_seconds, filename, total_seconds, s,
                   labels, seconds, ret>>

\* draw one label on a fresh frame and gif.sequence.append(frame)
Render ==
    /\ pc = "render"
    /\ i <= Len(labels)
    /\ gif' = [gif EXCEPT !.frames = Append(@, Frame(labels[i]))]
    /\ i' = i + 1
    /\ UNCHANGED <<pc, run, dirExists, disk, out, saved, err, prev, minutes,
                   start_minutes, start_seconds, filename, total_seconds, s,
                   labels, seconds, ret>>

\* drawing raises (the typeface cannot be resolved); nothing catches it
RenderFail ==
    /\ pc = "render"
    /\ i <= Len(labels)
    /\ err' = "FontResolutionError"
    /\ gif' = EmptyGif
    /\ pc' = "error"
    /\ UNCHANGED <<run, dirExists, disk, out, saved, prev, minutes,
                   start_minutes, start_seconds, filename, total_seconds, s,
                   labels, i, seconds, ret>>

\* after the last frame: dispose, delay, loop, type of the animation
SetMeta ==
    /\ pc = "render"
    /\ ~(i <= Len(labels))
    /\ gif' = [gif EXCEPT !.dispose = "background", !.delay = FrameDelay,
                          !.loop = GifLoop, !.type = "optimize"]
    /\ pc' = "save"
    /\ UNCHANGED <<run, dirExists, disk, out, saved, err, prev, minutes,
                   start_minutes, start_seconds, filename, total_seconds, s,
                   labels, i, seconds, ret>>

\* gif.save(filename=filename): create or overwrite, then release the image
Save ==
    /\ pc = "save"
    /\ dirExists
    /\ disk' = WriteFile(disk, filename, gif)
    /\ saved' = Append(saved, filename)
    /\ gif' = EmptyGif
    /\ pc' = "print_saved"
    /\ UNCHANGED <<run, dirExists, out, err, prev, minutes, start_minutes,
                   start_seconds, filename, total_seconds, s, labels, i,
                   seconds, ret>>

\* the failure is swallowed and the function carries on to its print
SaveFail_caught ==
    /\ pc = "save"
    /\ err' = "IOError"
    /\ gif' = EmptyGif
    /\ pc' = "print_saved"
    /\ UNCHANGED <<run, dirExists, disk, out, saved, prev, minutes,
                   start_minutes, start_seconds, filename, total_seconds, s,
                   labels, i, seconds, ret>>

\* gif.save raises: the target is left as it was or truncated
SaveFail ==
    /\ pc = "save"
    /\ err' = "IOError"
    /\ \/ disk' = disk
       \/ disk' = WriteFile(disk, filename, Truncated)
    /\ gif' = EmptyGif
    /\ pc' = "error"
    /\ UNCHANGED <<run, dirExists, out, saved, prev, minutes, start_minutes,
                   start_seconds, filename, total_seconds, s, labels, i,
                   seconds, ret>>

\* the function returns without printing
PrintSaved_skip ==
    /\ pc = "print_saved"
    /\ pc' = "for"
    /\ UNCHANGED <<run, dirExists, disk, out, saved, err, prev, minutes,
                   start_minutes, start_seconds, filename, total_seconds, s,
                   labels, i, gif, seconds, ret>>

\* print(f"GIF saved as {filename}") and return to the loop
PrintSaved ==
    /\ pc = "print_saved"
    /\ out' = Append(out, SavedLine(filename))
    /\ pc' = "for"
    /\ UNCHANGED <<run, dirExists, disk, saved, err, prev, minutes,
                   start_minutes, start_seconds, filename, total_seconds, s,
                   labels, i, gif, seconds, ret>>

\* print("All timer GIFs have been created.")
PrintAll ==
    /\ pc = "print_all"
    /\ out' = Append(out, AllDoneLine)
    /\ pc' = "done"
    /\ UNCHANGED <<run, dirExists, disk, saved, err, prev, minutes,
                   start_minutes, start_seconds, filename, total_seconds, s,
                   labels, i, gif, seconds, ret>>

\* the script is invoked again after a completed run; the disk persists
Rerun ==
    /\ pc = "done"
    /\ run < MaxRuns
    /\ run' = run + 1
    /\ prev' = [ok |-> TRUE, disk |-> disk]
    /\ pc' = "makedirs"
    /\ out' = <<>>
    /\ saved' = <<>>
    /\ minutes' = FirstMinutes
    /\ start_minutes' = 0 /\ start_seconds' = 0 /\ filename' = <<>>
    /\ total_seconds' = 0 /\ s' = 0 /\ labels' = <<>> /\ i' = 1
    /\ UNCHANGED <<dirExists, disk, err, gif, seconds, ret>>

Next ==
    \/ MakeDirs \/ MakeDirsFail
    \/ ForCall \/ ForExit
    \/ Enter \/ ListCompStep \/ ListCompDone
    \/ Render \/ RenderFail \/ SetMeta
    \/ Save \/ SaveFail
    \/ PrintSaved \/ PrintAll
    \/ Rerun

Spec == Init /\ [][Next]_vars

(* ---------------- nice_time on its own, over many inputs -------------- *)
InitFormat ==
    /\ pc = "nice_time"
    /\ seconds \in 0..MaxSeconds
    /\ ret = <<>>
    /\ run = 1 /\ dirExists = FALSE /\ disk = NoFiles /\ out = <<>>
    /\ saved = <<>> /\ err = "none" /\ prev = [ok |-> FALSE, disk |-> NoFiles]
    /\ minutes = FirstMinutes
    /\ Locals0

NiceTimeCall ==
    /\ pc = "nice_time"
    /\ ret' = nice_time(seconds)
    /\ pc' = "return"
    /\ UNCHANGED <<run, dirExists, disk, out, saved, err, prev, minutes,
                   start_minutes, start_seconds, filename, total_seconds, s,
                   labels, i, gif, seconds>>

NextFormat == NiceTimeCall

SpecFormat == InitFormat /\ [][NextFormat]_vars

(* ------- label generation of create_timer_gif over many inputs -------- *)
InitLabels ==
    /\ pc = "create_timer_gif"
    /\ start_minutes \in 0..MaxStartMinutes
    /\ start_seconds \in 0..MaxStartSeconds
    /\ filename = <<>> /\ total_seconds = 0 /\ s = 0 /\ labels = <<>>
    /\ i = 1 /\ gif = EmptyGif
    /\ run = 1 /\ dirExists = TRUE /\ disk = NoFiles /\ out = <<>>
    /\ saved = <<>> /\ err = "none" /\ prev = [ok |-> FALSE, disk |-> NoFiles]
    /\ minutes = FirstMinutes
    /\ seconds = 0 /\ ret = <<>>

NextLabels == Enter \/ ListCompStep \/ ListCompDone

SpecLabels == InitLabels /\ [][NextLabels]_vars

(* ======================= properties of the model ====================== *)
DigitChars == {"0", "1", "2", "3", "4", "5", "6", "7", "8", "9"}

DigitVal(c) ==
    CASE c = "0" -> 0 [] c = "1" -> 1 [] c = "2" -> 2 [] c = "3" -> 3
      [] c = "4" -> 4 [] c = "5" -> 5 [] c = "6" -> 6 [] c = "7" -> 7
      [] c = "8" -> 8 [] c = "9" -> 9

RECURSIVE NumVal(_)
NumVal(q) ==
    IF q = <<>> THEN 0
    ELSE NumVal(SubSeq(q, 1, Len(q) - 1)) * 10 + DigitVal(q[Len(q)])

AllDigits(q) == \A k \in 1..Len(q) : q[k] \in DigitChars

Min(a, b) == IF a <= b THEN a ELSE b

\* C1: for every non-negative s, nice_time(s) is MM:SS with MM = s // 60 and
\* SS = s % 60; the seconds field has exactly two digits and a value in
\* [0, 60); the minutes field has two digits when s < 6000 and more digits,
\* none dropped, when s >= 6000.
C1_NiceTimeFormat ==
    pc = "return" =>
        LET n  == Len(ret)
            mm == SubSeq(ret, 1, n - 3)
            ss == SubSeq(ret, n - 1, n)
        IN  /\ n >= 5
            /\ ret[n - 2] = ":"
            /\ AllDigits(mm) /\ AllDigits(ss)
            /\ NumVal(mm) = seconds \div 60
            /\ NumVal(ss) = seconds % 60
            /\ NumVal(ss) >= 0 /\ NumVal(ss) < 60
            /\ (seconds < 6000 => Len(mm) = 2)
            /\ (seconds >= 6000 => Len(mm) > 2)

C1_Witness == pc = "return" /\ seconds >= 6000 /\ Len(ret) = 6

\* C2 as stated: the label list is nice_time of every integer from
\* total_seconds down to max(total_seconds - 60, 0) inclusive.
C2_Original ==
    pc = "render" =>
        /\ total_seconds = start_minutes * 60 + start_seconds
        /\ labels = [k \in 1..(total_seconds - Max(total_seconds - 60, 0) + 1)
                        |-> nice_time(total_seconds - k + 1)]

\* C2 amended: the label list is nice_time of every integer from
\* total_seconds down to max(total_seconds - 59, 0) inclusive, in descending
\* steps of 1; the first label is the starting time and the last label is
\* the time 59 seconds earlier, clamped at 00:00.
C2_LabelsDescending ==
    pc = "render" =>
        /\ total_seconds = start_minutes * 60 + start_seconds
        /\ labels = [k \in 1..(total_seconds - Max(total_seconds - 59, 0) + 1)
                        |-> nice_time(total_seconds - k + 1)]
        /\ labels[1] = nice_time(total_seconds)
        /\ labels[Len(labels)] = nice_time(Max(total_seconds - 59, 0))

C2_Witness ==
    /\ pc = "render" /\ start_minutes = 15 /\ start_seconds = 0
    /\ labels[1] = <<"1", "5", ":", "0", "0">>
    /\ labels[Len(labels)] = <<"1", "4", ":", "0", "1">>

\* C3 as stated: 61 labels when total_seconds >= 60, total_seconds + 1 when
\* total_seconds < 60, and never more than 61.
C3_Original ==
    pc = "render" =>
        /\ Len(labels) = (IF total_seconds >= 60 THEN 61 ELSE total_seconds + 1)
        /\ Len(labels) <= 61

\* C3 amended: the number of labels is exactly 60 when total_seconds >= 60
\* and exactly total_seconds + 1 when total_seconds < 60 (one label, 00:00,
\* for a 0:00 start); the label count is at most 60.
C3_LabelCount ==
    pc = "render" =>
        /\ Len(labels) = (IF total_seconds >= 60 THEN 60 ELSE total_seconds + 1)
        /\ Len(labels) <= 60
        /\ (total_seconds = 0 => labels = << <<"0", "0", ":", "0", "0">> >>)

C3_Witness == pc = "render" /\ total_seconds >= 60 /\ Len(labels) = 60

\* C4: no value passed to nice_time during label generation is negative:
\* the k-th label is nice_time of total_seconds - k + 1, and that value is
\* >= 0, for every start_minutes >= 0 and start_seconds >= 0.
C4_NoNegativeValue ==
    /\ pc \in {"listcomp", "render"} => s >= -1
    /\ \A k \in 1..Len(labels) :
          /\ labels[k] = nice_time(total_seconds - k + 1)
          /\ total_seconds - k + 1 >= 0
          /\ labels[k][1] # "-"

C4_Witness ==
    /\ pc = "render" /\ total_seconds = 7 /\ Len(labels) = 8
    /\ labels[8] = <<"0", "0", ":", "0", "0">>

TimerFile(a, b) == <<"timer_gifs", "/", "timer_", a, b, "_", "0", "0", ".gif">>

ExpectedFiles ==
    << TimerFile("1", "5"), TimerFile("1", "4"), TimerFile("1", "3"),
       TimerFile("1", "2"), TimerFile("1", "1"), TimerFile("1", "0"),
       TimerFile("0", "9"), TimerFile("0", "8"), TimerFile("0", "7"),
       TimerFile("0", "6"), TimerFile("0", "5"), TimerFile("0", "4"),
       TimerFile("0", "3"), TimerFile("0", "2"), TimerFile("0", "1") >>

\* C5: a complete error-free run writes exactly the 15 files
\* timer_gifs/timer_15_00.gif .. timer_gifs/timer_01_00.gif, one after
\* another in that order, each exactly once, and only after the output
\* directory has been created.
C5_FifteenFilesInOrder ==
    /\ Len(saved) <= 15
    /\ \A k \in 1..Len(saved) : saved[k] = ExpectedFiles[k]
    /\ (saved # <<>> \/ DOMAIN disk # {}) => dirExists
    /\ pc \in {"print_all", "done"} => Len(saved) = 15
    /\ pc = "done" =>
          DOMAIN disk = {ExpectedFiles[k] : k \in 1..15}

C5_Witness == pc = "done" /\ run = 1 /\ Len(saved) = 15 /\ err = "none"

\* C6: the number of frames appended to any one animation never exceeds
\* 60, in memory and in every file written.
C6_AtMostSixtyFrames ==
    /\ Len(gif.frames) <= 60
    /\ \A f \in DOMAIN disk : Len(disk[f].frames) <= 60

C6_Witness ==
    /\ pc = "print_saved" /\ filename \in DOMAIN disk
    /\ Len(disk[filename].frames) = 60

\* C7: the line "GIF saved as <path>" of a file is printed only after that
\* file has been saved and before the next file's generation begins, once
\* per file; the line "All timer GIFs have been created." is printed once,
\* last, and only after all 15 files have been saved.
C7_ProgressLines ==
    /\ pc = "print_saved" => Len(out) + 1 = Len(saved)
    /\ pc \in {"makedirs", "for", "create_timer_gif", "listcomp", "render",
               "save", "print_all", "error"} => Len(out) = Len(saved)
    /\ \A k \in 1..Len(out) :
          k <= Len(saved) => out[k] = SavedLine(saved[k])
    /\ \A k \in 1..Len(out) : \A j \in 1..Len(out) :
          out[k] = out[j] => k = j
    /\ pc = "done" =>
          /\ Len(saved) = 15
          /\ Len(out) = 16
          /\ out[16] = AllDoneLine
    /\ pc # "done" => \A k \in 1..Len(out) : out[k] # AllDoneLine

C7_Witness ==
    /\ pc = "done" /\ Len(out) = 16
    /\ out[1] = <<"GIF saved as ">> \o TimerFile("1", "5")

Complete(c) == c.type = "optimize" /\ c.frames # <<>>

\* C8: once a frame render or a file write has failed, the run is in its
\* error state and stays there: nothing more is generated, written or
\* printed, neither the failed file's progress line nor the completion line
\* is in the output, and every file saved earlier in the run is on disk,
\* complete, and is never changed by a later step of the run.
C8_FailureStopsRun ==
    /\ [](err # "none" =>
            /\ pc = "error"
            /\ \A k \in 1..Len(out) : out[k] # AllDoneLine
            /\ Len(out) = Len(saved)
            /\ (filename # <<>> =>
                  \A k \in 1..Len(out) : out[k] # SavedLine(filename))
            /\ \A k \in 1..Len(saved) :
                  saved[k] \in DOMAIN disk /\ Complete(disk[saved[k]]))
    /\ [][err # "none" => UNCHANGED vars]_vars
    /\ [][\A k \in 1..Len(saved) :
             saved[k] \in DOMAIN disk' /\ disk'[saved[k]] = disk[saved[k]]]_vars

C8_Witness ==
    /\ err = "IOError" /\ pc = "error" /\ Len(saved) >= 2
    /\ filename \in DOMAIN disk /\ disk[filename] = Truncated

\* C9: a second error-free run right after an error-free run finds the
\* output directory present without failing, overwrites each of the 15
\* files, and leaves the same file names with the same content per file as
\* the first run left.
C9_RerunIdempotent ==
    /\ err # "FileExistsError"
    /\ (run >= 2 /\ pc # "makedirs" /\ pc # "error") => dirExists
    /\ (pc = "done" /\ run >= 2 /\ prev.ok) =>
          /\ Len(saved) = 15
          /\ DOMAIN disk = DOMAIN prev.disk
          /\ disk = prev.disk

C9_Witness ==
    /\ pc = "done" /\ run = 2 /\ prev.ok /\ Len(saved) = 15
    /\ Cardinality(DOMAIN disk) = 15 /\ disk = prev.disk

\* C10: the saved animation has exactly one frame per label, in label
\* order, every frame with delay 100 and disposal background, and loop
\* count 0; all labels are computed before the first frame is rendered, and
\* the save happens only after the last frame has been appended.
C10_FramesFollowLabels ==
    /\ pc = "listcomp" => gif.frames = <<>>
    /\ pc \in {"render", "save"} =>
          /\ Len(labels) = Min(total_seconds + 1, 60)
          /\ Len(gif.frames) = i - 1
          /\ \A k \in 1..Len(gif.frames) :
                /\ gif.frames[k].text = labels[k]
                /\ gif.frames[k].delay = 100
                /\ gif.frames[k].dispose = "background"
    /\ pc = "save" => Len(gif.frames) = Len(labels)
    /\ pc = "print_saved" =>
          /\ filename \in DOMAIN disk
          /\ Len(disk[filename].frames) = Len(labels)
          /\ \A k \in 1..Len(labels) :
                /\ disk[filename].frames[k].text = labels[k]
                /\ disk[filename].frames[k].delay = 100
                /\ disk[filename].frames[k].dispose = "background"
          /\ disk[filename].frames[1].text = nice_time(total_seconds)
          /\ disk[filename].loop = 0

C10_Witness ==
    /\ pc = "print_saved" /\ start_minutes = 1
    /\ Len(disk[filename].frames) = Len(labels)
    /\ disk[filename].frames[1].text = <<"0", "1", ":", "0", "0">>

====
